---- MODULE Spec2Model ----
(***************************************************************************)
(* Model of shortcutcleaner.py: the shortcut classifier                    *)
(* (is_target_drive_missing, is_broken_shortcut, is_valid_url) and the     *)
(* breadth-first tree walker search_loop.                                  *)
(*                                                                         *)
(* Strings are sequences of one-character strings, so that splitext,       *)
(* splitdrive, urlparse and str.strip are computed character by character. *)
(***************************************************************************)
EXTENDS Integers, Sequences, FiniteSets, TLC

(***************************************************************************)
(* Bounds of the model.                                                    *)
(***************************************************************************)
\* os.path.getsize of a file in the walked tree ranges over 1..MaxSize
MaxSize == 2

(***************************************************************************)
(* String helpers (Python str methods used by the program).                *)
(***************************************************************************)
SEP == "\\"
ALTSEP == "/"

\* the ASCII letters, index-aligned
UpperLetters ==
    <<"A", "B", "C", "D", "E", "F", "G", "H", "I", "J", "K", "L", "M",
      "N", "O", "P", "Q", "R", "S", "T", "U", "V", "W", "X", "Y", "Z">>
LowerLetters ==
    <<"a", "b", "c", "d", "e", "f", "g", "h", "i", "j", "k", "l", "m",
      "n", "o", "p", "q", "r", "s", "t", "u", "v", "w", "x", "y", "z">>

\* str.lower() on one character
LowerChar(c) ==
    IF \E i \in 1..26 : UpperLetters[i] = c
    THEN LowerLetters[CHOOSE i \in 1..26 : UpperLetters[i] = c]
    ELSE c

\* str.lower()
Lower(s) == [i \in 1..Len(s) |-> LowerChar(s[i])]

\* str.isalpha() on one character
IsAlphaChar(c) == \E i \in 1..26 : LowerLetters[i] = LowerChar(c)

\* s[i:] of Python with a 1-based first index
Suffix(s, i) == IF i > Len(s) THEN <<>> ELSE SubSeq(s, i, Len(s))

\* s[:i] of Python: the first i characters
Prefix(s, i) == IF i <= 0 THEN <<>> ELSE SubSeq(s, 1, IF i > Len(s) THEN Len(s) ELSE i)

\* str.find(c): 1-based index of the first c in s, 0 when absent
Find(s, c) ==
    IF \E i \in 1..Len(s) : s[i] = c
    THEN CHOOSE i \in 1..Len(s) : s[i] = c /\ \A j \in 1..(i-1) : s[j] # c
    ELSE 0

\* str.rfind(c): 1-based index of the last c in s, 0 when absent
RFind(s, c) ==
    IF \E i \in 1..Len(s) : s[i] = c
    THEN CHOOSE i \in 1..Len(s) : s[i] = c /\ \A j \in (i+1)..Len(s) : s[j] # c
    ELSE 0

\* 1-based index of the first character of s that is in the set cs, 0 when none
FindAny(s, cs) ==
    IF \E i \in 1..Len(s) : s[i] \in cs
    THEN CHOOSE i \in 1..Len(s) : s[i] \in cs /\ \A j \in 1..(i-1) : s[j] \notin cs
    ELSE 0

\* str.strip("/"): drop every leading and every trailing "/"
StripSlash(s) ==
    IF \A i \in 1..Len(s) : s[i] = "/"
    THEN <<>>
    ELSE LET first == CHOOSE i \in 1..Len(s) :
                          s[i] # "/" /\ \A j \in 1..(i-1) : s[j] = "/"
             last  == CHOOSE i \in 1..Len(s) :
                          s[i] # "/" /\ \A j \in (i+1)..Len(s) : s[j] = "/"
         IN  SubSeq(s, first, last)

\* str.replace("/", "\\"): what ntpath and the Windows file API do with altsep
NormSep(s) == [i \in 1..Len(s) |-> IF s[i] = ALTSEP THEN SEP ELSE s[i]]

(***************************************************************************)
(* os.path (ntpath) functions used by the program.                         *)
(***************************************************************************)
\* os.path.join(dir_to_search, filename)
Join(dir, name) == dir \o <<SEP>> \o name

\* os.path.splitext(p)[1]: the extension starts at the last dot of the last
\* component, unless that component has only leading dots before it
SplitExt(p) ==
    LET n        == NormSep(p)
        sepIndex == RFind(n, SEP)
        dotIndex == RFind(n, ".")
    IN  IF /\ dotIndex > sepIndex
           /\ \E k \in (sepIndex+1)..(dotIndex-1) : n[k] # "."
        THEN Suffix(p, dotIndex)
        ELSE <<>>

\* os.path.splitdrive(p)[0] for drive-letter paths: "X:" when the second
\* character is a colon, "" otherwise
SplitDrive(p) ==
    IF Len(p) >= 2 /\ p[2] = ":" THEN SubSeq(p, 1, 2) ELSE <<>>

(***************************************************************************)
(* urllib.parse.urlparse: scheme, netloc and path of a URL string.         *)
(***************************************************************************)
\* scheme_chars of urllib.parse: letters, digits and "+-."
Digits == {"0", "1", "2", "3", "4", "5", "6", "7", "8", "9"}
IsSchemeChar(c) == IsAlphaChar(c) \/ c \in Digits \/ c \in {"+", "-", "."}

\* whether url[:i] is taken as the scheme (i is the index of the first ":")
HasScheme(url) ==
    LET i == Find(url, ":")
    IN  /\ i > 1
        /\ IsAlphaChar(url[1])
        /\ \A k \in 1..(i-1) : IsSchemeChar(url[k])

\* the path is what precedes the query and the fragment
urlparse_path(rest) ==
    IF FindAny(rest, {"?", "#"}) = 0 THEN rest
    ELSE Prefix(rest, FindAny(rest, {"?", "#"}) - 1)

\* _splitnetloc: the netloc runs up to the first of "/", "?", "#" (at delim)
splitnetloc(scheme, after, delim) ==
    [scheme |-> scheme,
     netloc |-> IF delim = 0 THEN after ELSE Prefix(after, delim - 1),
     path   |-> IF delim = 0 THEN <<>> ELSE urlparse_path(Suffix(after, delim))]

\* what follows the scheme has a netloc exactly when it starts with "//"
urlparse_rest(scheme, rest) ==
    IF Len(rest) >= 2 /\ rest[1] = "/" /\ rest[2] = "/"
    THEN splitnetloc(scheme, Suffix(rest, 3), FindAny(Suffix(rest, 3), {"/", "?", "#"}))
    ELSE [scheme |-> scheme, netloc |-> <<>>, path |-> urlparse_path(rest)]

urlparse(url) ==
    IF HasScheme(url)
    THEN urlparse_rest(Lower(Prefix(url, Find(url, ":") - 1)), Suffix(url, Find(url, ":") + 1))
    ELSE urlparse_rest(<<>>, url)

(***************************************************************************)
(* Program constants.                                                      *)
(***************************************************************************)
FILE_SHORTCUT_EXT == <<".", "l", "n", "k">>
NET_SHORTCUT_EXT == <<".", "u", "r", "l">>

(***************************************************************************)
(* The environment: the file system outside the walked tree, which the     *)
(* recorded targets of the shortcuts refer to.  Only drive C: is mounted.   *)
(***************************************************************************)
MountedDrives == {<<"C", ":">>}
\* C:\t and "C:\a b" are regular files, C:\d is a directory
TargetFiles == {<<"C", ":", "\\", "t">>, <<"C", ":", "\\", "a", " ", "b">>}
TargetDirs == {<<"C", ":", "\\", "d">>}

\* recorded targets (TargetPath) a shortcut of the tree may have
T_empty    == <<>>
T_file     == <<"C", ":", "\\", "t">>
T_dir      == <<"C", ":", "\\", "d">>
T_gone     == <<"C", ":", "\\", "n">>
T_driveA   == <<"A", ":", "\\", "t">>
U_web      == <<"h", "t", "t", "p", ":", "/", "/", "h">>
U_webPath  == <<"h", "t", "t", "p", ":", "/", "/", "h", "/", "C", ":", "/", "t">>
U_noScheme == <<"/", "/", "h">>
U_noNet    == <<"m", "s", ":", "x">>
U_file     == <<"f", "i", "l", "e", ":", "/", "/", "/", "C", ":", "/", "t">>
U_fileDir  == <<"f", "i", "l", "e", ":", "/", "/", "/", "C", ":", "/", "d", "/">>
U_fileGone == <<"f", "i", "l", "e", ":", "/", "/", "/", "C", ":", "/", "n">>
U_fileA    == <<"f", "i", "l", "e", ":", "/", "/", "/", "A", ":", "/", "t">>
U_fileHost == <<"f", "i", "l", "e", ":", "/", "/", "h", "/", "C", ":", "/", "n">>
U_fileOnly == <<"f", "i", "l", "e", ":">>
U_fileEnc  == <<"f", "i", "l", "e", ":", "/", "/", "/", "C", ":", "/", "a", "%", "2", "0", "b">>

PathTargets == {T_empty, T_file, T_dir, T_gone, T_driveA}
UrlTargets == {U_web, U_webPath, U_noScheme, U_noNet, U_file, U_fileDir,
               U_fileGone, U_fileA, U_fileHost, U_fileOnly, U_fileEnc}

\* drive lists the caller may pass (already normalised by parse_drive_str)
DriveA == <<"A", ":">>
DriveB == <<"B", ":">>
DriveLists == {<<>>, <<DriveA>>, <<DriveB>>}

\* What a file of the tree is, as far as the program can observe it:
\*   parse  - outcome of WScript.Shell CreateShortCut on the file: "ok",
\*            "com_error" (not a link file) or "attr_error" (a link object
\*            that lacks FullName/TargetPath)
\*   ext    - the extension of its name
\*   target - its recorded TargetPath
\*   size   - os.path.getsize
Contents ==
    {c \in [parse : {"ok", "com_error", "attr_error"},
            ext   : {<<".", "l", "n", "k">>, <<".", "L", "n", "K">>, <<".", "u", "r", "l">>, <<".", "U", "R", "L">>, <<".", "t", "x", "t">>},
            target : PathTargets \cup UrlTargets,
            size  : 1..MaxSize] :
        \/ /\ c.parse = "ok"
           /\ Lower(c.ext) = FILE_SHORTCUT_EXT
           /\ c.target \in PathTargets
           /\ (c.ext # FILE_SHORTCUT_EXT => c.target \in {T_empty, T_gone})
        \/ /\ c.parse = "ok"
           /\ Lower(c.ext) = NET_SHORTCUT_EXT
           /\ c.target \in UrlTargets \cup {T_empty, T_file, T_driveA}
           /\ (c.ext # NET_SHORTCUT_EXT => c.target \in {U_web, U_fileGone})
        \/ /\ c.parse = "ok"
           /\ c.ext = <<".", "t", "x", "t">>
           /\ c.target = T_gone
        \/ /\ c.parse = "com_error"
           /\ c.ext \in {<<".", "t", "x", "t">>, <<".", "l", "n", "k">>}
           /\ c.target = T_empty
        \/ /\ c.parse = "attr_error"
           /\ c.ext = FILE_SHORTCUT_EXT
           /\ c.target = T_empty}

\* the contents the file of the subdirectory ranges over: one of each class
\* the walker distinguishes
SubContents ==
    {c \in Contents :
        /\ c.size = MaxSize
        /\ \/ c.ext = FILE_SHORTCUT_EXT /\ c.parse = "ok"
           \/ c.ext = NET_SHORTCUT_EXT /\ c.target = U_fileGone
           \/ c.parse = "com_error" /\ c.ext # FILE_SHORTCUT_EXT
        /\ c.target \in {T_empty, T_file, T_gone, T_driveA, U_fileGone}}

(***************************************************************************)
(* The walked tree.                                                        *)
(*   r\          a<ext>  s\  b.lnk  u\                                     *)
(*   r\s\        c<ext>  t\                                                *)
(*   r\s\t\      e.lnk                                                     *)
(*   r\u\        d.url                                                     *)
(***************************************************************************)
StartDir == <<"r">>
SubDir == Join(StartDir, <<"s">>)
OtherDir == Join(StartDir, <<"u">>)
DeepDir == Join(SubDir, <<"t">>)
\* b.lnk and e.lnk are broken file shortcuts, d.url a working net shortcut
ContentB == [parse |-> "ok", ext |-> FILE_SHORTCUT_EXT, target |-> T_gone, size |-> 1]
ContentD == [parse |-> "ok", ext |-> NET_SHORTCUT_EXT, target |-> U_web, size |-> 1]
ContentE == [parse |-> "ok", ext |-> FILE_SHORTCUT_EXT, target |-> T_gone, size |-> 1]

VARIABLES
    files,            \* file path -> Contents: the regular files of the tree
    dirEntries,       \* directory path -> the names os.listdir returns
    dirStatus,        \* directory path -> "ok" | "denied" | "missing"
    readonly,         \* file paths on which os.remove raises PermissionError
    onDisk,           \* file paths currently present in the tree
    delete,           \* argument of search_loop
    removable_drives, \* argument of search_loop
    stop_event,       \* threading.Event.is_set() of the stop_event argument
    dirs_to_search,   \* the work queue
    dir_to_search,    \* the directory being listed
    listing,          \* entries of dir_to_search the for loop has not reached
    total_count,
    total_size,
    output,           \* the lines printed so far
    removed,          \* paths os.remove has removed, in order
    visited,          \* one record per regular file the loop body handled
    enqueued,         \* every directory put on the work queue, in order
    dequeued,         \* every directory taken off the work queue, in order
    pc,               \* "main" | "idle" | "start" | "while" | "for" | "break"
                      \* | "done" | "raised" | "enable"
    stopped_at,       \* what had been dequeued and processed when stop_event was set
    runs,             \* calls of search_loop from the command line so far
    previous,         \* what the call before the current one counted and printed
    args,             \* args.removable_drives as given on the command line
    frames,           \* the drive of every RemovableDrive frame displayed
    add_drive_var,    \* the text of the add-drive entry
    run_button,       \* "normal" | "disabled", "none" without a GUI
    gui,              \* "open" | "destroyed", "none" without a GUI
    threads           \* search threads started and not ended

vars == <<files, dirEntries, dirStatus, readonly, onDisk, delete,
          removable_drives, stop_event, dirs_to_search, dir_to_search,
          listing, total_count, total_size, output, removed, visited,
          enqueued, dequeued, pc, stopped_at, runs, previous, args, frames,
          add_drive_var, run_button, gui, threads>>

\* the widgets and threads of the GUI
host == <<args, frames, add_drive_var, run_button, gui, threads>>

\* what the properties remember of earlier steps
history == <<stopped_at, runs, previous>>

env == <<files, dirEntries, dirStatus, readonly, delete, removable_drives>>

(***************************************************************************)
(* os.path predicates.                                                     *)
(***************************************************************************)
isfile(p) == NormSep(p) \in TargetFiles \/ p \in onDisk
isdir(p) == NormSep(p) \in TargetDirs \/ p \in DOMAIN dirEntries
exists(p) == p \in MountedDrives \/ isfile(p) \/ isdir(p)

(***************************************************************************)
(* The classifier.  A call returns [exc, val]: exc is "none" and val the   *)
(* returned value, or exc names the exception raised.                      *)
(***************************************************************************)
Return(v) == [exc |-> "none", val |-> v]
Raise(e) == [exc |-> e, val |-> FALSE]

\* PurePath.name: the final component of the path
path_name(p) == Suffix(p, RFind(NormSep(p), SEP) + 1)

\* PurePath.suffix: what starts at the last dot of the final component,
\* unless that dot is its first or its last character
suffix(p) ==
    IF 1 < RFind(path_name(p), ".") /\ RFind(path_name(p), ".") < Len(path_name(p))
    THEN Suffix(path_name(p), RFind(path_name(p), "."))
    ELSE <<>>

\* lines 101-102: shortcut_has_ext on a Path
shortcut_has_ext_path(shortcut, ext) ==
    \E extension \in {suffix(shortcut)} : Lower(extension) = ext

\* shortcut_has_ext on a path string or a CDispatch object: both take the
\* extension of the full name
shortcut_has_ext(shortcut, ext) ==
    \E extension \in {SplitExt(shortcut)} : Lower(extension) = ext

\* is_valid_url accepting any URL that has a scheme
is_valid_parsed_scheme_only(result) ==
    IF /\ result.scheme # <<>>
       /\ result.scheme = <<"f", "i", "l", "e">>
       /\ result.netloc = <<>>
       /\ result.path # <<>>
    THEN isfile(StripSlash(result.path)) \/ isdir(StripSlash(result.path))
    ELSE result.scheme # <<>>

\* is_valid_url rejecting only a URL that has neither scheme nor netloc
is_valid_parsed_either(result) ==
    IF /\ result.scheme # <<>>
       /\ result.scheme = <<"f", "i", "l", "e">>
       /\ result.netloc = <<>>
       /\ result.path # <<>>
    THEN isfile(StripSlash(result.path)) \/ isdir(StripSlash(result.path))
    ELSE result.scheme # <<>> \/ result.netloc # <<>>

\* lines 121-124 of is_valid_url, on the result of urlparse
is_valid_parsed(result) ==
    IF /\ result.scheme # <<>>
       /\ result.scheme = <<"f", "i", "l", "e">>
       /\ result.netloc = <<>>
       /\ result.path # <<>>
    THEN isfile(StripSlash(result.path)) \/ isdir(StripSlash(result.path))
    ELSE result.scheme # <<>> /\ result.netloc # <<>>

is_valid_url(url) == \E result \in {urlparse(url)} : is_valid_parsed(result)

\* get_shortcut_object on a path string: the outcome of CreateShortCut
get_shortcut_object(path) ==
    IF files[path].parse = "com_error" THEN Raise("com_error") ELSE Return(TRUE)

TargetPath(path) == files[path].target

\* is_broken_shortcut testing a file link with os.path.isfile only
is_broken_shortcut_files_only(path) ==
    IF get_shortcut_object(path).exc # "none" THEN get_shortcut_object(path)
    ELSE IF files[path].parse = "attr_error" THEN Raise("AttributeError")
    ELSE IF shortcut_has_ext(path, FILE_SHORTCUT_EXT)
         THEN IF TargetPath(path) = <<>>
              THEN Raise("NoTargetPathException")
              ELSE Return(~isfile(TargetPath(path)))
    ELSE IF shortcut_has_ext(path, NET_SHORTCUT_EXT)
         THEN Return(~is_valid_url(TargetPath(path)))
    ELSE Raise("UnfamiliarShortcutExtException")

is_broken_shortcut(path) ==
    IF get_shortcut_object(path).exc # "none" THEN get_shortcut_object(path)
    ELSE IF files[path].parse = "attr_error" THEN Raise("AttributeError")
    ELSE IF shortcut_has_ext(path, FILE_SHORTCUT_EXT)
         THEN IF TargetPath(path) = <<>>
              THEN Raise("NoTargetPathException")
              ELSE Return(~(isfile(TargetPath(path)) \/ isdir(TargetPath(path))))
    ELSE IF shortcut_has_ext(path, NET_SHORTCUT_EXT)
         THEN Return(~is_valid_url(TargetPath(path)))
    ELSE Raise("UnfamiliarShortcutExtException")

\* is_target_drive_missing without the drive test of lines 221-222
is_target_drive_missing_no_test(path) ==
    IF get_shortcut_object(path).exc # "none" THEN get_shortcut_object(path)
    ELSE IF files[path].parse = "attr_error" THEN Raise("AttributeError")
    ELSE IF shortcut_has_ext(path, FILE_SHORTCUT_EXT)
         THEN IF TargetPath(path) = <<>>
              THEN Raise("NoTargetPathException")
              ELSE Return(FALSE)
    ELSE IF shortcut_has_ext(path, NET_SHORTCUT_EXT)
         THEN Return(FALSE)
    ELSE Raise("UnfamiliarShortcutExtException")

\* is_target_drive_missing applying the drive test of lines 221-222 to net
\* shortcuts too
is_target_drive_missing_any_ext(path) ==
    IF get_shortcut_object(path).exc # "none" THEN get_shortcut_object(path)
    ELSE IF files[path].parse = "attr_error" THEN Raise("AttributeError")
    ELSE IF shortcut_has_ext(path, FILE_SHORTCUT_EXT)
         THEN IF TargetPath(path) = <<>>
              THEN Raise("NoTargetPathException")
              ELSE Return(~exists(SplitDrive(TargetPath(path))))
    ELSE IF shortcut_has_ext(path, NET_SHORTCUT_EXT)
         THEN Return(~exists(SplitDrive(TargetPath(path))))
    ELSE Raise("UnfamiliarShortcutExtException")

is_target_drive_missing(path) ==
    IF get_shortcut_object(path).exc # "none" THEN get_shortcut_object(path)
    ELSE IF files[path].parse = "attr_error" THEN Raise("AttributeError")
    ELSE IF shortcut_has_ext(path, FILE_SHORTCUT_EXT)
         THEN IF TargetPath(path) = <<>>
              THEN Raise("NoTargetPathException")
              ELSE Return(~exists(SplitDrive(TargetPath(path))))
    ELSE IF shortcut_has_ext(path, NET_SHORTCUT_EXT)
         THEN Return(FALSE)
    ELSE Raise("UnfamiliarShortcutExtException")

(***************************************************************************)
(* Printed lines.  Every print call of search_loop is one record; the      *)
(* elapsed time of the "took" line is not modelled.                        *)
(***************************************************************************)
Line(kind, path, drive) ==
    [kind |-> kind, path |-> path, drive |-> drive, drives |-> <<>>,
     count |-> 0, size |-> 0]
StartLines(start_dir, del, drives) ==
    <<Line("start", start_dir, <<>>)>>
    \o (IF del THEN <<Line("deleting", <<>>, <<>>)>> ELSE <<>>)
    \o <<[Line("ignoring_drives", <<>>, <<>>) EXCEPT !.drives = drives]>>
\* the elapsed time printed without the totals
SummaryLines_took_only(count, size) == <<Line("took", <<>>, <<>>)>>

\* lines 306-307
SummaryLines(count, size) ==
    <<Line("took", <<>>, <<>>),
      [Line("summary", <<>>, <<>>) EXCEPT !.count = count, !.size = size]>>

\* x in l, for a Python list l
InList(x, l) == \E i \in 1..Len(l) : l[i] = x

(***************************************************************************)
(* search_loop, lines 261-286: the classification of one regular file.     *)
(* Returns the value of broken, the branch that decided it ("drive" for    *)
(* the missing-drive branch, "generic" for is_broken_shortcut, "none" when *)
(* an exception was handled), the exception handled and the lines printed. *)
(***************************************************************************)
\* the opposite polarity: a shortcut to a missing drive is broken when the
\* drive is in the list
broken_on_listed_drive(drive, drives) == InList(drive, drives)

\* lines 267-270: a shortcut to a missing drive is broken unless the drive
\* is in removable_drives
broken_on_missing_drive(drive, drives) == ~InList(drive, drives)

\* every except clause printing a line, the one for com_error too
handler_lines_reporting_all(exc, path) == <<Line(exc, path, <<>>)>>

\* lines 275-286: what each except clause prints
handler_lines(exc, path) ==
    IF exc = "com_error" THEN <<>>
    ELSE <<Line(exc, path, <<>>)>>

\* lines 275-286: an exception of the classifier was caught
classify_raised(exc, path) ==
    [broken |-> FALSE, via |-> "none", exc |-> exc, lines |-> handler_lines(exc, path)]

\* lines 264-270: is_target_drive_missing returned True
classify_missing_drive(path, drive) ==
    [broken |-> broken_on_missing_drive(drive, removable_drives),
     via |-> "drive", exc |-> "none",
     lines |-> <<Line("missing_drive", path, drive)>>
               \o (IF InList(drive, removable_drives)
                   THEN <<Line("ignoring", <<>>, drive)>> ELSE <<>>)]

\* line 272: broken = is_broken_shortcut( path )
classify_generic(path, generic) ==
    IF generic.exc # "none" THEN classify_raised(generic.exc, path)
    ELSE [broken |-> generic.val, via |-> "generic", exc |-> "none", lines |-> <<>>]

\* lines 262-272 on the outcome of is_target_drive_missing( path )
classify_on(path, missing) ==
    IF missing.exc # "none" THEN classify_raised(missing.exc, path)
    ELSE IF missing.val
    THEN classify_missing_drive(path, SplitDrive(TargetPath(path)))
    ELSE classify_generic(path, is_broken_shortcut(path))

classify(path) == classify_on(path, is_target_drive_missing(path))

\* a loop body without the except clause for NoTargetPathException
handled_without_no_target(exc) ==
    exc \in {"none", "com_error", "AttributeError", "UnfamiliarShortcutExtException"}

\* a loop body without the except clause for UnfamiliarShortcutExtException
handled_without_unfamiliar(exc) ==
    exc \in {"none", "com_error", "AttributeError", "NoTargetPathException"}

\* lines 275-286: the exceptions the except clauses of the loop body catch;
\* any other exception leaves search_loop
handled(exc) ==
    exc \in {"none", "com_error", "AttributeError", "NoTargetPathException",
             "UnfamiliarShortcutExtException"}

\* a walker that removes every classified file in delete mode
remove_called_unconditional(broken, del) == del

\* a walker that removes broken files whatever the delete flag
remove_called_ignoring_flag(broken, del) == broken

\* a walker that removes broken files in report-only mode instead
remove_called_in_report_mode(broken, del) == broken /\ ~del

\* lines 290-291: os.remove is called exactly for a broken file in delete mode
remove_called(broken, del) == broken /\ del

\* os.listdir: the names of the entries present in the directory
listdir(dir) ==
    SelectSeq(dirEntries[dir],
              LAMBDA name : Join(dir, name) \in onDisk
                            \/ Join(dir, name) \in DOMAIN dirEntries)

\* the exception os.listdir raises on the directory, "none" when it lists it
listdir_exc(dir) ==
    IF dirStatus[dir] = "denied" THEN "PermissionError"
    ELSE IF dirStatus[dir] = "missing" THEN "FileNotFoundError"
    ELSE "none"

\* the exception os.remove raises on the file, "none" when it removes it
remove_exc(path) == IF path \in readonly THEN "PermissionError" ELSE "none"

\* a loop without the except clause of line 300
caught_nothing(exc) == FALSE

\* lines 257 and 300-301: the exceptions the try statement around the for
\* loop catches, whichever call of the loop raised them
caught(exc) == exc = "PermissionError"

\* the stop test inverted: break unless the event is set
after_dir_unless_stopped == IF stop_event THEN "while" ELSE "break"

\* lines 303-304 (and 297-298): where the loops go once an iteration ends
after_dir == IF stop_event THEN "break" ELSE "while"

\* a for loop that tests the event before its first entry
after_listing_testing_event(entries) ==
    IF stop_event \/ entries = <<>> THEN after_dir ELSE "for"

\* line 258: the for loop is entered with the entries os.listdir returned,
\* without a test of the event
after_listing(entries) ==
    IF entries = <<>> THEN after_dir ELSE "for"

\* a for loop that goes on to the next entry although the event is set
after_entry_ignoring_stop(rest) ==
    IF rest = <<>> THEN after_dir ELSE "for"

\* lines 258 and 297-298: where the for loop goes after an entry, rest being
\* the entries of the listing it has not reached
after_entry(rest) ==
    IF stop_event \/ rest = <<>> THEN after_dir ELSE "for"

\* a directory put at the front of the queue
enqueue_front(queue, path) ==
    IF isdir(path) THEN <<path>> \o queue ELSE queue

\* lines 294-295: elif os.path.isdir( path ): dirs_to_search.append( path )
enqueue(queue, path) ==
    IF isdir(path) THEN Append(queue, path) ELSE queue

\* the size added for every file, broken or not
size_added_unconditional(broken, size) == size

\* lines 287-288: what a classified file adds to total_size
size_added(broken, size) == IF broken THEN size ELSE 0

\* lines 287-289: what a classified file adds to total_count, before
\* os.remove is called
count_added(broken) == IF broken THEN 1 ELSE 0

\* the line printed in delete mode too
found_lines_any_mode(path, broken, del) ==
    IF broken THEN <<Line("found_broken", path, <<>>)>> ELSE <<>>

\* lines 287-293: the line printed for a broken shortcut that is not removed
found_lines(path, broken, del) ==
    IF broken /\ ~del THEN <<Line("found_broken", path, <<>>)>> ELSE <<>>

\* how far the walk has come: directories taken off the queue, and entries
\* the for loop has been through
Progress ==
    [dequeued |-> Len(dequeued), entries |-> Len(visited) + Len(enqueued) - 1]

NoProgress == [dequeued |-> 0, entries |-> 0]

\* what a run of search_loop counted and printed
RunResult ==
    [count |-> total_count, size |-> total_size, output |-> output]

NoRun == [count |-> 0, size |-> 0, output |-> <<>>]

(***************************************************************************)
(* Initial state: search_loop has printed its start lines and set up its   *)
(* totals and its queue (lines 244-253) over some tree.                    *)
(***************************************************************************)
FileName(stem, c) == <<stem>> \o c.ext

\* the tree whose files a and c have the names fa and fc
NamedTree(fa, fc, ca, cc, sStatus) ==
    /\ files = (Join(StartDir, fa) :> ca)
            @@ (Join(StartDir, FileName("b", ContentB)) :> ContentB)
            @@ (Join(SubDir, fc) :> cc)
            @@ (Join(OtherDir, FileName("d", ContentD)) :> ContentD)
            @@ (Join(DeepDir, FileName("e", ContentE)) :> ContentE)
    /\ dirEntries = (StartDir :> <<fa, <<"s">>, FileName("b", ContentB), <<"u">> >>)
                 @@ (SubDir :> <<fc, <<"t">> >>)
                 @@ (OtherDir :> <<FileName("d", ContentD)>>)
                 @@ (DeepDir :> <<FileName("e", ContentE)>>)
    /\ dirStatus = (StartDir :> "ok") @@ (SubDir :> sStatus)
                 @@ (OtherDir :> "ok") @@ (DeepDir :> "ok")
    /\ onDisk = DOMAIN files

TreeInit(ca, cc, sStatus) ==
    NamedTree(FileName("a", ca), FileName("c", cc), ca, cc, sStatus)

\* lines 244-253: the start lines are printed, the totals and the queue set up
LoopLocals ==
    /\ dirs_to_search = <<StartDir>>
    /\ dir_to_search = <<>>
    /\ listing = <<>>
    /\ total_count = 0
    /\ total_size = 0
    /\ output = StartLines(StartDir, delete, removable_drives)
    /\ removed = <<>>
    /\ visited = <<>>
    /\ enqueued = <<StartDir>>
    /\ dequeued = <<>>
    /\ pc = "while"
    /\ stopped_at = NoProgress
    /\ runs = 1
    /\ previous = NoRun

LoopInit ==
    /\ stop_event = FALSE
    /\ LoopLocals

\* search_loop called from main with --no_gui, or by a test: no widget exists
NoHost ==
    /\ args = <<>>
    /\ frames = <<>>
    /\ add_drive_var = <<>>
    /\ run_button = "none"
    /\ gui = "none"
    /\ threads = 0

Init ==
    /\ \E ca \in Contents, cc \in SubContents, sStatus \in {"ok", "denied"} :
           TreeInit(ca, cc, sStatus)
    /\ readonly = {}
    /\ delete \in BOOLEAN
    /\ removable_drives \in DriveLists
    /\ LoopInit
    /\ NoHost

(***************************************************************************)
(* search_loop, lines 254-258 and 300-304: take the next directory off the *)
(* queue and list it.                                                      *)
(***************************************************************************)
Dequeue ==
    /\ pc = "while"
    /\ Len(dirs_to_search) > 0
    /\ dir_to_search' = Head(dirs_to_search)
    /\ dirs_to_search' = Tail(dirs_to_search)
    /\ dequeued' = Append(dequeued, Head(dirs_to_search))
    /\ IF listdir_exc(Head(dirs_to_search)) = "none"
       THEN /\ listing' = listdir(Head(dirs_to_search))
            /\ pc' = after_listing(listdir(Head(dirs_to_search)))
            /\ UNCHANGED output
       ELSE IF caught(listdir_exc(Head(dirs_to_search)))
       THEN \* print(e) at line 301, then the stop test of line 303
            /\ output' = Append(output, Line(listdir_exc(Head(dirs_to_search)),
                                             Head(dirs_to_search), <<>>))
            /\ listing' = <<>>
            /\ pc' = after_dir
       ELSE \* the exception leaves search_loop
            /\ pc' = "raised"
            /\ UNCHANGED <<output, listing>>
    /\ UNCHANGED <<env, onDisk, stop_event, total_count, total_size, removed,
                   visited, enqueued, host, history>>

(***************************************************************************)
(* search_loop, lines 258-298: one iteration of the for loop.              *)
(***************************************************************************)
\* lines 287-293 and 300-301: the file at path was classified as c, and
\* os.remove, when called, raised exc ("none" when it removed the file)
ProcessFile(path, c, exc) ==
    /\ visited' = Append(visited, [path |-> path, broken |-> c.broken,
                                   via |-> c.via, exc |-> c.exc])
    /\ total_size' = total_size + size_added(c.broken, files[path].size)
    /\ total_count' = total_count + count_added(c.broken)
    /\ onDisk' = IF remove_called(c.broken, delete) /\ exc = "none"
                 THEN onDisk \ {path} ELSE onDisk
    /\ removed' = IF remove_called(c.broken, delete) /\ exc = "none"
                  THEN Append(removed, path) ELSE removed
    /\ output' = output \o c.lines \o found_lines(path, c.broken, delete)
                 \o (IF exc # "none" /\ caught(exc)
                     THEN <<Line(exc, path, <<>>)>> ELSE <<>>)
    /\ listing' = IF exc = "none" THEN Tail(listing) ELSE <<>>
    /\ pc' = IF exc # "none" THEN (IF caught(exc) THEN after_dir ELSE "raised")
             ELSE after_entry(Tail(listing))
    /\ UNCHANGED <<dirs_to_search, enqueued>>

ProcessEntry ==
    /\ pc = "for"
    /\ Len(listing) > 0
    /\ \E path \in {Join(dir_to_search, Head(listing))} :
           IF isfile(path)
           THEN \E c \in {classify(path)} :
                    IF handled(c.exc)
                    THEN ProcessFile(path, c,
                                     IF remove_called(c.broken, delete)
                                     THEN remove_exc(path) ELSE "none")
                    ELSE \* the exception leaves search_loop
                         /\ pc' = "raised"
                         /\ UNCHANGED <<visited, total_size, total_count, onDisk,
                                        removed, output, listing, dirs_to_search,
                                        enqueued>>
           ELSE /\ dirs_to_search' = enqueue(dirs_to_search, path)
                /\ enqueued' = enqueue(enqueued, path)
                /\ listing' = Tail(listing)
                /\ pc' = after_entry(Tail(listing))
                /\ UNCHANGED <<visited, total_size, total_count, onDisk, removed, output>>
    /\ UNCHANGED <<env, stop_event, dir_to_search, dequeued, host, history>>

(***************************************************************************)
(* search_loop, lines 306-307: the loop has ended, print the summary.      *)
(***************************************************************************)
Finish ==
    /\ (pc = "while" /\ Len(dirs_to_search) = 0) \/ pc = "break"
    /\ output' = output \o SummaryLines(total_count, total_size)
    /\ pc' = "done"
    /\ UNCHANGED <<env, onDisk, stop_event, dirs_to_search, dir_to_search, listing,
                   total_count, total_size, removed, visited, enqueued, dequeued,
                   host, history>>

Next == Dequeue \/ ProcessEntry \/ Finish

\* search_loop called without a stop_event, on a tree it can walk
Spec == Init /\ [][Next]_vars

(***************************************************************************)
(* search_loop run in the thread of the GUI: TkinterGUI.destroy sets the   *)
(* stop_event while the loop runs.  The tree may hold a directory that     *)
(* os.listdir cannot open and a file that os.remove cannot remove.         *)
(***************************************************************************)
SetStop ==
    /\ pc \in {"while", "for"}
    /\ ~stop_event
    /\ stop_event' = TRUE
    /\ stopped_at' = Progress
    /\ UNCHANGED <<env, onDisk, dirs_to_search, dir_to_search, listing,
                   total_count, total_size, output, removed, visited,
                   enqueued, dequeued, pc, runs, previous, host>>

RunInit(statuses) ==
    /\ \E ca \in SubContents, cc \in SubContents, sStatus \in statuses :
           TreeInit(ca, cc, sStatus)
    /\ readonly \in {{}, {Join(StartDir, FileName("b", ContentB))}}
    /\ delete \in BOOLEAN
    /\ removable_drives \in {<<>>, <<DriveA>>}
    /\ LoopInit
    /\ NoHost

FaultInit == RunInit({"ok", "denied", "missing"})

ThreadInit == RunInit({"ok", "denied"})

ThreadNext == Dequeue \/ ProcessEntry \/ Finish \/ SetStop

\* a run in which listing a directory may fail in either way
FaultSpec == FaultInit /\ [][ThreadNext]_vars

\* a run whose errors are all caught; the thread of search_loop keeps
\* running until the function returns
FairSpec == ThreadInit /\ [][ThreadNext]_vars /\ WF_vars(Next)

(***************************************************************************)
(* search_loop called again, with the same arguments, once it has          *)
(* returned: a second run over the tree the first run has left.            *)
(***************************************************************************)
MaxRuns == 2

Rerun ==
    /\ pc = "done"
    /\ runs < MaxRuns
    /\ previous' = RunResult
    /\ runs' = runs + 1
    /\ dirs_to_search' = <<StartDir>>
    /\ dir_to_search' = <<>>
    /\ listing' = <<>>
    /\ total_count' = 0
    /\ total_size' = 0
    /\ output' = StartLines(StartDir, delete, removable_drives)
    /\ removed' = <<>>
    /\ visited' = <<>>
    /\ enqueued' = <<StartDir>>
    /\ dequeued' = <<>>
    /\ pc' = "while"
    /\ UNCHANGED <<env, onDisk, stop_event, stopped_at, host>>

RerunInit == RunInit({"ok", "denied"})

RerunNext == Dequeue \/ ProcessEntry \/ Finish \/ Rerun

RerunSpec == RerunInit /\ [][RerunNext]_vars

(***************************************************************************)
(* search_loop run in report-only mode with an empty drive list over a     *)
(* tree whose files a<ext> and c<ext> are two copies of one shortcut,      *)
(* ranging over every content the classifier distinguishes.                *)
(***************************************************************************)
ClassifyInit ==
    /\ \E ca \in Contents : TreeInit(ca, ca, "ok")
    /\ readonly = {}
    /\ delete = FALSE
    /\ removable_drives = <<>>
    /\ LoopInit
    /\ NoHost

ClassifySpec == ClassifyInit /\ [][Next]_vars

(***************************************************************************)
(* Drive input parsing, lines 59-88.                                       *)
(***************************************************************************)
\* a letter outside A-Z that str.isalpha accepts, and its str.upper()
SharpS == "ß"
\* str.isalpha() on one character of user input
isalpha(c) == IsAlphaChar(c) \/ c = SharpS

\* str.upper() on one character: a string, of two characters for SharpS
upper(c) ==
    IF c = SharpS THEN <<"S", "S">>
    ELSE IF \E i \in 1..26 : LowerLetters[i] = c
    THEN <<UpperLetters[CHOOSE i \in 1..26 : LowerLetters[i] = c]>>
    ELSE <<c>>

\* list( filter( str.isalpha, drive ) )
alpha_drive(drive) == SelectSeq(drive, isalpha)

\* the return value None
None == <<"None">>

\* lines 59-67
parse_drive_str(drive) ==
    IF Len(alpha_drive(drive)) # 1 THEN None
    ELSE upper(alpha_drive(drive)[1]) \o <<":">>

\* parse_removable_drives taking the first letter of an input that has several
parse_removable_drives_first_letter(drives) ==
    [i \in 1..Len(SelectSeq(drives, LAMBDA drive : alpha_drive(drive) # <<>>)) |->
        parse_drive_str(
            <<alpha_drive(SelectSeq(drives,
                                    LAMBDA drive : alpha_drive(drive) # <<>>)[i])[1]>>)]

\* lines 69-88, the returned list: the inputs whose letters are one letter,
\* each parsed from that letter
parse_removable_drives(drives) ==
    [i \in 1..Len(SelectSeq(drives, LAMBDA drive : Len(alpha_drive(drive)) = 1)) |->
        parse_drive_str(
            <<alpha_drive(SelectSeq(drives,
                                    LAMBDA drive : Len(alpha_drive(drive)) = 1)[i])[1]>>)]

\* lines 78-86, the lines printed: one for every input that is ignored
RECURSIVE parse_lines(_)
parse_lines(drives) ==
    IF drives = <<>> THEN <<>>
    ELSE (IF alpha_drive(Head(drives)) = <<>>
          THEN <<Line("empty_input", <<>>, <<>>)>>
          ELSE IF Len(alpha_drive(Head(drives))) > 1
          THEN <<Line("multiple_letters", <<>>, Head(drives))>>
          ELSE <<>>)
         \o parse_lines(Tail(drives))

(***************************************************************************)
(* main, lines 541-581, run with --no_gui: the drive inputs of the command *)
(* line are parsed and search_loop is called with the result.              *)
(***************************************************************************)
MaxArgs == 2

\* the inputs given after --removable_drives
ArgStrings ==
    {<<>>, <<"a">>, <<"B">>, <<"b", ":">>, <<"a", "b">>, <<";", ":">>, <<SharpS>>}

ArgLists == UNION {[1..n -> ArgStrings] : n \in 0..MaxArgs}

\* a.lnk targets the missing drive A:, c.txt is no shortcut
ContentA == [parse |-> "ok", ext |-> FILE_SHORTCUT_EXT, target |-> T_driveA, size |-> 1]
ContentC == [parse |-> "com_error", ext |-> <<".", "t", "x", "t">>,
             target |-> T_empty, size |-> 1]

\* the process has started: nothing is parsed, no widget exists, search_loop
\* has not been called
Started ==
    /\ TreeInit(ContentA, ContentC, "ok")
    /\ readonly = {}
    /\ removable_drives = <<>>
    /\ stop_event = FALSE
    /\ dirs_to_search = <<>>
    /\ dir_to_search = <<>>
    /\ listing = <<>>
    /\ total_count = 0
    /\ total_size = 0
    /\ output = <<>>
    /\ removed = <<>>
    /\ visited = <<>>
    /\ enqueued = <<>>
    /\ dequeued = <<>>
    /\ pc = "main"
    /\ stopped_at = NoProgress
    /\ runs = 0
    /\ previous = NoRun
    /\ frames = <<>>
    /\ add_drive_var = <<>>
    /\ run_button = "none"
    /\ gui = "none"
    /\ threads = 0

\* lines 570-581
MainNoGui ==
    /\ pc = "main"
    /\ removable_drives' = parse_removable_drives(args)
    /\ output' = parse_lines(args)
                 \o StartLines(StartDir, delete, parse_removable_drives(args))
    /\ dirs_to_search' = <<StartDir>>
    /\ enqueued' = <<StartDir>>
    /\ runs' = 1
    /\ pc' = "while"
    /\ UNCHANGED <<files, dirEntries, dirStatus, readonly, delete, onDisk,
                   stop_event, dir_to_search, listing, total_count, total_size,
                   removed, visited, dequeued, stopped_at, previous, host>>

ParseInit ==
    /\ Started
    /\ delete = FALSE
    /\ args \in ArgLists

ParseNext == MainNoGui \/ Dequeue \/ ProcessEntry \/ Finish

ParseSpec == ParseInit /\ [][ParseNext]_vars

(***************************************************************************)
(* The report-only run over a tree whose files a and c are two copies of   *)
(* one shortcut under a name that is the extension after the stem "a" or   *)
(* after the stem ".".                                                     *)
(***************************************************************************)
ExtInit ==
    /\ \E stem \in {"a", "."}, ca \in Contents :
           NamedTree(FileName(stem, ca), FileName(stem, ca), ca, ca, "ok")
    /\ readonly = {}
    /\ delete = FALSE
    /\ removable_drives = <<>>
    /\ LoopInit
    /\ NoHost

ExtSpec == ExtInit /\ [][Next]_vars

(***************************************************************************)
(* The GUI, lines 335-519.  main parses the command line and builds the    *)
(* TkinterGUI; the user edits the drive list, clicks Run and closes the    *)
(* window in any order while the search thread runs.  removable_drives is  *)
(* the one list object that main parsed, the GUI keeps in                  *)
(* self.removable_drives and run_search_loop passes to search_loop.        *)
(***************************************************************************)
\* texts of the add-drive entry
AddInputs == {<<>>, <<"a">>, <<"A", ":">>, <<"a", "b">>, <<"1">>, <<SharpS>>}

\* command lines naming drive a: not at all, once, or several times
GuiArgs == {l \in ArgLists : \A i \in 1..Len(l) : l[i] = <<"a">>}

\* list.remove(x): the list without its first x
remove(l, x) ==
    [i \in 1..(Len(l) - 1) |->
        IF i < (CHOOSE k \in 1..Len(l) : l[k] = x /\ \A j \in 1..(k-1) : l[j] # x)
        THEN l[i] ELSE l[i+1]]

\* the sequence l without its element at position i
without(l, i) == [k \in 1..(Len(l) - 1) |-> IF k < i THEN l[k] ELSE l[k+1]]

\* self.removable_drives once every frame of the sequence has been destroyed
\* and remove_removable_drive has run for each
RECURSIVE remove_all(_, _)
remove_all(l, destroyed) ==
    IF destroyed = <<>> THEN l
    ELSE remove_all(remove(l, Head(destroyed)), Tail(destroyed))

\* lines 570-584: main without --no_gui
MainGui ==
    /\ pc = "main"
    /\ removable_drives' = parse_removable_drives(args)
    /\ frames' = parse_removable_drives(args)
    /\ output' = parse_lines(args)
    /\ add_drive_var' = <<>>
    /\ run_button' = "normal"
    /\ gui' = "open"
    /\ pc' = "idle"
    /\ UNCHANGED <<files, dirEntries, dirStatus, readonly, delete, onDisk,
                   stop_event, dirs_to_search, dir_to_search, listing,
                   total_count, total_size, removed, visited, enqueued,
                   dequeued, history, args, threads>>

\* the text of the add-drive entry is set
TypeEntry ==
    /\ gui = "open"
    /\ \E entry_input \in AddInputs : add_drive_var' = entry_input
    /\ UNCHANGED <<env, onDisk, stop_event, dirs_to_search, dir_to_search,
                   listing, total_count, total_size, output, removed, visited,
                   enqueued, dequeued, pc, history, args, frames, run_button,
                   gui, threads>>

\* lines 461-475
validate_add_drive(entry_input) ==
    IF entry_input = <<>> THEN TRUE
    ELSE IF Len(entry_input) > 1 \/ ~isalpha(entry_input[1]) THEN FALSE
    ELSE IF InList(parse_drive_str(entry_input), removable_drives) THEN FALSE
    ELSE TRUE

\* lines 477-490
add_removable_drive ==
    /\ gui = "open"
    /\ IF add_drive_var # <<>> /\ validate_add_drive(add_drive_var)
       THEN /\ removable_drives' = Append(removable_drives,
                                          parse_drive_str(add_drive_var))
            /\ frames' = Append(frames, parse_drive_str(add_drive_var))
       ELSE UNCHANGED <<removable_drives, frames>>
    /\ add_drive_var' = <<>>
    /\ UNCHANGED <<files, dirEntries, dirStatus, readonly, delete, onDisk,
                   stop_event, dirs_to_search, dir_to_search, listing,
                   total_count, total_size, output, removed, visited,
                   enqueued, dequeued, pc, history, args, run_button, gui,
                   threads>>

\* lines 492-499 and 538: the X button of a frame destroys the frame, whose
\* <Destroy> event calls remove_removable_drive
remove_removable_drive ==
    /\ gui = "open"
    /\ \E i \in 1..Len(frames) :
           /\ InList(frames[i], removable_drives)
           /\ removable_drives' = remove(removable_drives, frames[i])
           /\ frames' = without(frames, i)
    /\ UNCHANGED <<files, dirEntries, dirStatus, readonly, delete, onDisk,
                   stop_event, dirs_to_search, dir_to_search, listing,
                   total_count, total_size, output, removed, visited,
                   enqueued, dequeued, pc, history, args, add_drive_var,
                   run_button, gui, threads>>

\* a Run button left enabled by the click
button_after_click_enabled == "normal"

\* line 506: self.run_button.config( state=tk.DISABLED )
button_after_click == "disabled"

\* lines 501-508: a click on the Run button, which only an enabled button of
\* a window that exists takes
start_search_thread ==
    /\ gui = "open"
    /\ run_button = "normal"
    /\ run_button' = button_after_click
    /\ threads' = threads + 1
    /\ pc' = "start"
    /\ UNCHANGED <<env, onDisk, stop_event, dirs_to_search, dir_to_search,
                   listing, total_count, total_size, output, removed, visited,
                   enqueued, dequeued, history, args, frames, add_drive_var, gui>>

\* lines 515 and 244-253: the thread calls search_loop, which prints its
\* start lines and sets up its totals and its queue
run_search_loop ==
    /\ pc = "start"
    /\ dirs_to_search' = <<StartDir>>
    /\ dir_to_search' = <<>>
    /\ listing' = <<>>
    /\ total_count' = 0
    /\ total_size' = 0
    /\ output' = StartLines(StartDir, delete, removable_drives)
    /\ removed' = <<>>
    /\ visited' = <<>>
    /\ enqueued' = <<StartDir>>
    /\ dequeued' = <<>>
    /\ pc' = "while"
    /\ UNCHANGED <<env, onDisk, stop_event, history, host>>

\* line 518: search_loop has returned; the thread tests the event
run_search_loop_check ==
    /\ pc = "done"
    /\ threads > 0
    /\ IF stop_event
       THEN pc' = "idle" /\ threads' = threads - 1
       ELSE pc' = "enable" /\ UNCHANGED threads
    /\ UNCHANGED <<env, onDisk, stop_event, dirs_to_search, dir_to_search,
                   listing, total_count, total_size, output, removed, visited,
                   enqueued, dequeued, history, args, frames, add_drive_var,
                   run_button, gui>>

\* line 519: self.run_button.config( state=tk.NORMAL ), which raises in the
\* thread when the window is gone; the thread ends
run_search_loop_config ==
    /\ pc = "enable"
    /\ run_button' = IF gui = "open" THEN "normal" ELSE run_button
    /\ threads' = threads - 1
    /\ pc' = "idle"
    /\ UNCHANGED <<env, onDisk, stop_event, dirs_to_search, dir_to_search,
                   listing, total_count, total_size, output, removed, visited,
                   enqueued, dequeued, history, args, frames, add_drive_var, gui>>

\* lines 443-450: the event is set, then every widget is destroyed; the
\* <Destroy> event of each RemovableDrive frame calls remove_removable_drive
destroy ==
    /\ gui = "open"
    /\ stop_event' = TRUE
    /\ stopped_at' = IF stop_event THEN stopped_at ELSE Progress
    /\ removable_drives' = remove_all(removable_drives, frames)
    /\ frames' = <<>>
    /\ gui' = "destroyed"
    /\ UNCHANGED <<files, dirEntries, dirStatus, readonly, delete, onDisk,
                   dirs_to_search, dir_to_search, listing, total_count,
                   total_size, output, removed, visited, enqueued, dequeued,
                   pc, runs, previous, args, add_drive_var, run_button, threads>>

GuiInit ==
    /\ Started
    /\ delete \in BOOLEAN
    /\ args \in GuiArgs

\* the steps of the main thread, which runs the event loop of Tk
GuiEvent ==
    \/ MainGui
    \/ TypeEntry
    \/ add_removable_drive
    \/ remove_removable_drive
    \/ start_search_thread
    \/ destroy

\* the steps of the search thread
ThreadStep ==
    \/ run_search_loop
    \/ Dequeue
    \/ ProcessEntry
    \/ Finish
    \/ run_search_loop_check
    \/ run_search_loop_config

GuiNext == GuiEvent \/ ThreadStep

GuiSpec == GuiInit /\ [][GuiNext]_vars

(***************************************************************************)
(* search_loop called with a stop_event that is set already, as when the   *)
(* window is closed between the click on Run and the start of the thread.  *)
(***************************************************************************)
StoppedInit ==
    /\ \E ca \in SubContents, cc \in SubContents, sStatus \in {"ok", "denied"} :
           TreeInit(ca, cc, sStatus)
    /\ readonly \in {{}, {Join(StartDir, FileName("b", ContentB))}}
    /\ delete \in BOOLEAN
    /\ removable_drives \in {<<>>, <<DriveA>>}
    /\ stop_event = TRUE
    /\ LoopLocals
    /\ NoHost

StoppedSpec == StoppedInit /\ [][Next]_vars

(***************************************************************************)
(* Vocabulary of the properties.                                           *)
(***************************************************************************)
\* the file at p has been through the loop body
Processed(p) == \E i \in 1..Len(visited) : visited[i].path = p

\* the classes of files of the specification, described by what the file is
ParsesAsLink(p) == files[p].parse = "ok"
NotAShortcut(p) == files[p].parse = "com_error"
IsFileLink(p) == ParsesAsLink(p) /\ Lower(files[p].ext) = FILE_SHORTCUT_EXT
IsNetLink(p) == ParsesAsLink(p) /\ Lower(files[p].ext) = NET_SHORTCUT_EXT
Unrecognized(p) == ParsesAsLink(p) /\ ~IsFileLink(p) /\ ~IsNetLink(p)
Indeterminate(p) == IsFileLink(p) /\ files[p].target = <<>>
\* something exists at the recorded target t
TargetExists(t) == NormSep(t) \in TargetFiles \cup TargetDirs
\* a file link whose target is present, or a net link the classifier accepts
WorkingShortcut(p) ==
    \/ IsFileLink(p) /\ files[p].target # <<>> /\ TargetExists(files[p].target)
    \/ IsNetLink(p) /\ is_valid_url(files[p].target)

\* the drive a recorded target names: of the path itself, or of the path
\* component of a URL
RecordedDrive(t) ==
    IF SplitDrive(t) # <<>> THEN SplitDrive(t)
    ELSE SplitDrive(StripSlash(urlparse(t).path))
OnMissingDrive(t) == RecordedDrive(t) # <<>> /\ RecordedDrive(t) \notin MountedDrives
\* a file link with a recorded target on a drive that is not mounted
MissingDriveLink(p) ==
    IsFileLink(p) /\ files[p].target # <<>> /\ OnMissingDrive(files[p].target)
\* a file: URI with no network location and a non-empty path
LocalFileUri(t) ==
    /\ urlparse(t).scheme = <<"f", "i", "l", "e">>
    /\ urlparse(t).netloc = <<>>
    /\ urlparse(t).path # <<>>
\* total_count is the number of files the loop body judged broken
CountMatchesVerdicts ==
    total_count = Cardinality({i \in 1..Len(visited) : visited[i].broken})
\* percent-decoding of a URI path (the escapes of space and of "%")
RECURSIVE PercentDecode(_)
PercentDecode(s) ==
    IF s = <<>> THEN <<>>
    ELSE IF Len(s) >= 3 /\ s[1] = "%" /\ s[2] = "2" /\ s[3] = "0"
    THEN <<" ">> \o PercentDecode(Suffix(s, 4))
    ELSE IF Len(s) >= 3 /\ s[1] = "%" /\ s[2] = "2" /\ s[3] = "5"
    THEN <<"%">> \o PercentDecode(Suffix(s, 4))
    ELSE <<s[1]>> \o PercentDecode(Suffix(s, 2))
\* the local path a file: URI names
LocalPathOf(t) == PercentDecode(StripSlash(urlparse(t).path))

\* how many times x occurs in the sequence q
Occurrences(q, x) == Cardinality({i \in 1..Len(q) : q[i] = x})
\* how many times the file at p went through the loop body
TimesVisited(p) == Cardinality({i \in 1..Len(visited) : visited[i].path = p})
\* os.listdir succeeds on every directory of the tree
NoDirectoryDenied == \A dir \in DOMAIN dirStatus : dirStatus[dir] = "ok"

\* the number of directories above the file or directory at p
Depth(p) == Cardinality({i \in 1..Len(p) : p[i] = SEP})
\* the directory that holds p, and the name of p in it
ParentOf(p) == Prefix(p, RFind(p, SEP) - 1)
NameOf(p) == Suffix(p, RFind(p, SEP) + 1)
\* the position of the entry p in the listing of its directory
ListingIndex(p) ==
    CHOOSE k \in 1..Len(dirEntries[ParentOf(p)]) :
        dirEntries[ParentOf(p)][k] = NameOf(p)
\* dir is p or a directory above p
Holds(dir, p) ==
    \/ dir = p
    \/ Len(dir) < Len(p) /\ Prefix(p, Len(dir)) = dir /\ p[Len(dir) + 1] = SEP
\* every directory from the start directory down to p can be listed
Reachable(p) ==
    \A dir \in DOMAIN dirStatus : (Holds(dir, p) /\ dir # p) => dirStatus[dir] = "ok"

\* how many lines of the given kind have been printed
LinesOfKind(kind) == Cardinality({k \in 1..Len(output) : output[k].kind = kind})

\* how many printed lines of the given kinds name the path p
LinesAbout(p, kinds) ==
    Cardinality({k \in 1..Len(output) : output[k].path = p /\ output[k].kind \in kinds})
\* the kinds of line the loop body prints about a file or a directory
ReportKinds ==
    {"found_broken", "missing_drive", "AttributeError", "NoTargetPathException",
     "UnfamiliarShortcutExtException", "PermissionError"}

\* the paths of the visited files the loop body judged broken, in order
BrokenVisited ==
    [i \in 1..Len(SelectSeq(visited, LAMBDA v : v.broken)) |->
        SelectSeq(visited, LAMBDA v : v.broken)[i].path]
\* the paths named on the "found broken" lines, in order
FoundBrokenPaths ==
    [i \in 1..Len(SelectSeq(output, LAMBDA l : l.kind = "found_broken")) |->
        SelectSeq(output, LAMBDA l : l.kind = "found_broken")[i].path]
\* the sum of the sizes of the files at the paths of the sequence q
RECURSIVE SizeSum(_)
SizeSum(q) == IF q = <<>> THEN 0 ELSE files[Head(q)].size + SizeSum(Tail(q))

C2_ReportOnlyKeepsDisk ==
    ~delete =>
        /\ onDisk = DOMAIN files
        /\ removed = <<>>
        /\ \A dir \in DOMAIN dirEntries : listdir(dir) = dirEntries[dir]

\* a report-only walk has ended having found broken shortcuts
C2_Witness ==
    pc = "done" /\ ~delete /\ total_count >= 2 /\ onDisk = DOMAIN files

(***************************************************************************)
(* C3 - Missing-drive polarity as the specification and the test state it: *)
(* a shortcut whose target drive is missing is counted as broken (and      *)
(* deleted in delete mode) if and only if that drive is in the drive list. *)
(* The code does the opposite, so this fails.                              *)
(***************************************************************************)
C3_BrokenOnlyIfDriveListed ==
    \A i \in 1..Len(visited) :
        MissingDriveLink(visited[i].path) =>
            /\ visited[i].broken
                 <=> InList(SplitDrive(files[visited[i].path].target), removable_drives)
            /\ (visited[i].path \notin onDisk)
                 => InList(SplitDrive(files[visited[i].path].target), removable_drives)

C5_MissingDriveNeverGeneric ==
    \A i \in 1..Len(visited) :
        ( /\ IsFileLink(visited[i].path) \/ IsNetLink(visited[i].path)
          /\ OnMissingDrive(files[visited[i].path].target) )
            => visited[i].via = "drive"

(***************************************************************************)
(* C5, amended - every .lnk shortcut whose recorded target lies on a drive *)
(* that does not exist is decided by the missing-drive branch and never by *)
(* is_broken_shortcut; every .url shortcut is decided by                   *)
(* is_broken_shortcut, whatever drive its target names.                    *)
(***************************************************************************)
C5_FileLinksByDriveBranch ==
    \A i \in 1..Len(visited) :
        /\ MissingDriveLink(visited[i].path) => visited[i].via = "drive"
        /\ IsNetLink(visited[i].path) => visited[i].via = "generic"

\* the walk has classified a .lnk and a .url that both target the missing
\* drive A:
C5_Witness ==
    /\ \E i \in 1..Len(visited) : MissingDriveLink(visited[i].path)
    /\ \E i \in 1..Len(visited) :
           /\ IsNetLink(visited[i].path)
           /\ OnMissingDrive(files[visited[i].path].target)

(***************************************************************************)
(* C6 - For a .lnk with a non-empty recorded target, is_broken_shortcut    *)
(* returns true exactly when neither a file nor a directory exists at the  *)
(* target; the walker never counts a .lnk whose target exists as broken    *)
(* and always counts one whose target is absent on an existing drive.      *)
(***************************************************************************)
C6_FileLinkBrokenIffTargetAbsent ==
    /\ CountMatchesVerdicts
    /\ \A p \in DOMAIN files :
           (IsFileLink(p) /\ files[p].target # <<>>) =>
               is_broken_shortcut(p) = Return(~TargetExists(files[p].target))
    /\ \A i \in 1..Len(visited) :
           (IsFileLink(visited[i].path) /\ files[visited[i].path].target # <<>>) =>
               /\ TargetExists(files[visited[i].path].target) => ~visited[i].broken
               /\ ( /\ ~TargetExists(files[visited[i].path].target)
                    /\ SplitDrive(files[visited[i].path].target) \in MountedDrives )
                      => visited[i].broken

\* the walk has classified a .lnk to an existing directory and a .lnk to an
\* absent path of the mounted drive
C6_Witness ==
    /\ \E i \in 1..Len(visited) :
           /\ IsFileLink(visited[i].path)
           /\ files[visited[i].path].target = T_dir
           /\ ~visited[i].broken
    /\ \E i \in 1..Len(visited) :
           /\ IsFileLink(visited[i].path)
           /\ files[visited[i].path].target = T_gone
           /\ visited[i].broken

(***************************************************************************)
(* C7 - A .url shortcut whose target is not a local file: URI is           *)
(* classified not-broken exactly when the target parses with a non-empty   *)
(* scheme and a non-empty network location, whether or not its path       *)
(* names an existing file.                                                 *)
(***************************************************************************)
C7_NetLinkValidIffSchemeAndNetloc ==
    \A i \in 1..Len(visited) :
        ( /\ IsNetLink(visited[i].path)
          /\ ~LocalFileUri(files[visited[i].path].target) ) =>
            /\ ~visited[i].broken
                 <=> /\ urlparse(files[visited[i].path].target).scheme # <<>>
                     /\ urlparse(files[visited[i].path].target).netloc # <<>>
            /\ ~visited[i].broken
                 <=> files[visited[i].path].target \in {U_web, U_webPath, U_fileHost}

\* the walk has found not-broken a .url whose path component names an
\* existing file, and has ended
C7_Witness ==
    /\ pc = "done"
    /\ \E i \in 1..Len(visited) :
           /\ IsNetLink(visited[i].path)
           /\ files[visited[i].path].target = U_webPath
           /\ ~visited[i].broken

(***************************************************************************)
(* C8 - Original statement: for a NetLink whose target is not a local      *)
(* file: URI, the target is missing exactly when the URI lacks both a      *)
(* scheme and a network location.  Fails: lacking either one is enough.    *)
(***************************************************************************)
C8_MissingIffLacksBoth ==
    \A i \in 1..Len(visited) :
        ( /\ IsNetLink(visited[i].path)
          /\ ~LocalFileUri(files[visited[i].path].target) ) =>
            visited[i].broken
              <=> /\ urlparse(files[visited[i].path].target).scheme = <<>>
                  /\ urlparse(files[visited[i].path].target).netloc = <<>>

(***************************************************************************)
(* C8, amended - for a NetLink whose target is not a local file: URI, the  *)
(* target is missing exactly when the URI lacks a scheme or lacks a        *)
(* network location: a target with a scheme but no network location, or   *)
(* with a network location but no scheme, is reported as missing.          *)
(***************************************************************************)
C8_MissingIffLacksEither ==
    /\ \A p \in DOMAIN files :
           (IsNetLink(p) /\ ~LocalFileUri(files[p].target)) =>
               is_broken_shortcut(p) =
                   Return(urlparse(files[p].target).scheme = <<>>
                          \/ urlparse(files[p].target).netloc = <<>>)
    /\ \A i \in 1..Len(visited) :
           ( /\ IsNetLink(visited[i].path)
             /\ files[visited[i].path].target \in {U_noNet, U_noScheme} )
               => visited[i].broken

\* the walk has classified as broken a .url with a scheme and no network
\* location
C8_Witness ==
    \E i \in 1..Len(visited) :
        /\ IsNetLink(visited[i].path)
        /\ files[visited[i].path].target = U_noNet
        /\ visited[i].broken

(***************************************************************************)
(* C9 - A .url shortcut whose target is a file: URI with no network        *)
(* location and a non-empty path is classified broken exactly when neither *)
(* a file nor a directory exists at the local path the URI names.  Fails   *)
(* for a URI with percent-escapes, which the code does not decode.         *)
(***************************************************************************)
C9_FileUriBrokenIffLocalPathAbsent ==
    \A i \in 1..Len(visited) :
        ( /\ IsNetLink(visited[i].path)
          /\ LocalFileUri(files[visited[i].path].target) ) =>
            visited[i].broken
              <=> ~TargetExists(LocalPathOf(files[visited[i].path].target))

(***************************************************************************)
(* C10 - A .lnk whose recorded target is empty is indeterminate: both      *)
(* is_target_drive_missing and is_broken_shortcut raise                    *)
(* NoTargetPathException for it; in a walk it prints one line, adds        *)
(* nothing to the count or the byte total, is not deleted, and the entries *)
(* after it are still processed.                                           *)
(***************************************************************************)
C10_EmptyTargetIndeterminate ==
    /\ [](/\ \A p \in DOMAIN files :
                Indeterminate(p) =>
                    /\ is_target_drive_missing(p).exc = "NoTargetPathException"
                    /\ is_broken_shortcut(p).exc = "NoTargetPathException"
          /\ \A p \in DOMAIN files :
                (Indeterminate(p) /\ Processed(p)) =>
                    /\ p \in onDisk
                    /\ \A i \in 1..Len(visited) :
                           visited[i].path = p => ~visited[i].broken
                    /\ Cardinality({k \in 1..Len(output) :
                           output[k] = Line("NoTargetPathException", p, <<>>)}) = 1
          /\ pc # "raised"
          /\ pc = "done" =>
                \A dir \in DOMAIN dirEntries :
                    \A k \in 1..Len(dirEntries[dir]) :
                        ( /\ Join(dir, dirEntries[dir][k]) \in DOMAIN files
                          /\ \E j \in 1..(k-1) :
                                 /\ Join(dir, dirEntries[dir][j]) \in DOMAIN files
                                 /\ Indeterminate(Join(dir, dirEntries[dir][j]))
                                 /\ Processed(Join(dir, dirEntries[dir][j])) )
                            => Processed(Join(dir, dirEntries[dir][k])))
    /\ [][( /\ pc = "for"
            /\ Len(listing) > 0
            /\ Join(dir_to_search, Head(listing)) \in DOMAIN files
            /\ Indeterminate(Join(dir_to_search, Head(listing))) )
            => /\ total_count' = total_count
               /\ total_size' = total_size
               /\ onDisk' = onDisk
               /\ removed' = removed
               /\ listing' = Tail(listing)
               /\ output' = Append(output, Line("NoTargetPathException",
                                                Join(dir_to_search, Head(listing)), <<>>))
          ]_vars

\* a delete-mode walk has ended; it met an empty-target .lnk first in the
\* start directory and went on to process the broken b.lnk after it
C10_Witness ==
    /\ pc = "done"
    /\ delete
    /\ Len(visited) >= 2
    /\ Indeterminate(visited[1].path)
    /\ visited[2].path = Join(StartDir, FileName("b", ContentB))
    /\ visited[2].broken
    /\ total_count >= 1

(***************************************************************************)
(* C11 - A file that parses as a link but whose extension is neither .lnk  *)
(* nor .url (whatever the case of its letters) makes the classifier raise  *)
(* UnfamiliarShortcutExtException; in a walk, with delete set or not, it   *)
(* prints one line, is not counted as broken, is not deleted, and the walk *)
(* goes on with the next entry.                                            *)
(***************************************************************************)
C11_UnrecognizedReportedNotBroken ==
    /\ [](/\ \A p \in DOMAIN files :
                (Unrecognized(p) /\ Processed(p)) =>
                    /\ p \in onDisk
                    /\ \A i \in 1..Len(visited) :
                           visited[i].path = p =>
                               /\ ~visited[i].broken
                               /\ visited[i].exc = "UnfamiliarShortcutExtException"
                    /\ Cardinality({k \in 1..Len(output) :
                           output[k] = Line("UnfamiliarShortcutExtException", p, <<>>)}) = 1
                    /\ \A k \in 1..Len(output) :
                           output[k].kind = "found_broken" => output[k].path # p
          /\ pc # "raised"
          /\ pc = "done" =>
                \A dir \in DOMAIN dirEntries :
                    \A k \in 1..Len(dirEntries[dir]) :
                        ( /\ Join(dir, dirEntries[dir][k]) \in DOMAIN files
                          /\ \E j \in 1..(k-1) :
                                 /\ Join(dir, dirEntries[dir][j]) \in DOMAIN files
                                 /\ Unrecognized(Join(dir, dirEntries[dir][j]))
                                 /\ Processed(Join(dir, dirEntries[dir][j])) )
                            => Processed(Join(dir, dirEntries[dir][k])))
    /\ [][( /\ pc = "for"
            /\ Len(listing) > 0
            /\ Join(dir_to_search, Head(listing)) \in DOMAIN files
            /\ Unrecognized(Join(dir_to_search, Head(listing))) )
            => /\ total_count' = total_count
               /\ total_size' = total_size
               /\ onDisk' = onDisk
               /\ removed' = removed
               /\ listing' = Tail(listing)
               /\ pc' = "for"
               /\ output' = Append(output, Line("UnfamiliarShortcutExtException",
                                                Join(dir_to_search, Head(listing)), <<>>))
          ]_vars

\* a delete-mode walk has ended; it met a link file named a.txt first in the
\* start directory, left it on disk, and went on to remove the broken b.lnk
C11_Witness ==
    /\ pc = "done"
    /\ delete
    /\ Len(visited) >= 2
    /\ Unrecognized(visited[1].path)
    /\ visited[1].path \in onDisk
    /\ visited[2].path = Join(StartDir, FileName("b", ContentB))
    /\ visited[2].path \notin onDisk
    /\ total_count >= 1

(***************************************************************************)
(* C12 - A regular file on which CreateShortCut raises com_error is not a  *)
(* shortcut: the loop body prints nothing for it, does not count it, does  *)
(* not delete it, and goes on with the next entry of the same directory.   *)
(***************************************************************************)
C12_NonShortcutSkippedSilently ==
    /\ [](/\ \A p \in DOMAIN files :
                (NotAShortcut(p) /\ Processed(p)) =>
                    /\ p \in onDisk
                    /\ \A i \in 1..Len(visited) :
                           visited[i].path = p =>
                               ~visited[i].broken /\ visited[i].exc = "com_error"
                    /\ \A k \in 1..Len(output) : output[k].path # p
          /\ pc # "raised")
    /\ [][( /\ pc = "for"
            /\ Len(listing) > 0
            /\ Join(dir_to_search, Head(listing)) \in DOMAIN files
            /\ NotAShortcut(Join(dir_to_search, Head(listing))) )
            => /\ output' = output
               /\ total_count' = total_count
               /\ total_size' = total_size
               /\ onDisk' = onDisk
               /\ removed' = removed
               /\ dir_to_search' = dir_to_search
               /\ listing' = Tail(listing)
               /\ pc' = "for"
               /\ Len(visited') = Len(visited) + 1
          ]_vars

\* a delete-mode walk has ended; its first file was not a shortcut, nothing
\* was printed about it, and the broken b.lnk after it was removed
C12_Witness ==
    /\ pc = "done"
    /\ delete
    /\ Len(visited) >= 2
    /\ NotAShortcut(visited[1].path)
    /\ visited[1].path \in onDisk
    /\ \A k \in 1..Len(output) : output[k].path # visited[1].path
    /\ visited[2].path = Join(StartDir, FileName("b", ContentB))
    /\ visited[2].path \notin onDisk

(***************************************************************************)
(* C13 - In a walk that is not stopped and meets no directory it cannot    *)
(* list, no file is classified twice and no directory is put on or taken   *)
(* off the queue twice, and when the walk has ended every regular file     *)
(* under the start directory has been classified exactly once and every    *)
(* directory has been enqueued exactly once and dequeued exactly once.     *)
(* It fails in delete mode when os.remove is denied a broken shortcut: the *)
(* except clause of line 300 abandons the rest of the directory's listing. *)
(***************************************************************************)
C13_EveryFileExactlyOnce ==
    (NoDirectoryDenied /\ ~stop_event) =>
        /\ \A p \in DOMAIN files : TimesVisited(p) <= 1
        /\ \A dir \in DOMAIN dirEntries :
               /\ Occurrences(enqueued, dir) <= 1
               /\ Occurrences(dequeued, dir) <= 1
               /\ Occurrences(dequeued, dir) <= Occurrences(enqueued, dir)
        /\ pc \in {"while", "for", "done"}
        /\ pc = "done" =>
               /\ \A p \in DOMAIN files : TimesVisited(p) = 1
               /\ \A i \in 1..Len(visited) : visited[i].path \in DOMAIN files
               /\ \A dir \in DOMAIN dirEntries :
                      /\ Occurrences(enqueued, dir) = 1
                      /\ Occurrences(dequeued, dir) = 1

C15_DeniedDirectorySkipped ==
    /\ [](/\ pc # "raised"
          /\ \A dir \in DOMAIN dirStatus :
                 Cardinality({k \in 1..Len(output) :
                     output[k] = Line("PermissionError", dir, <<>>)})
                 = (IF dirStatus[dir] = "denied" THEN Occurrences(dequeued, dir) ELSE 0)
          /\ \A i \in 1..Len(visited) : Reachable(visited[i].path)
          /\ pc = "done" =>
                 /\ \A p \in DOMAIN files : Reachable(p) => TimesVisited(p) = 1
                 /\ \A dir \in DOMAIN dirStatus :
                        Reachable(dir) => Occurrences(dequeued, dir) = 1)
    /\ [][( /\ pc = "while"
            /\ Len(dirs_to_search) > 0
            /\ dirStatus[Head(dirs_to_search)] = "denied" )
            => /\ output' = Append(output, Line("PermissionError",
                                                Head(dirs_to_search), <<>>))
               /\ total_count' = total_count
               /\ total_size' = total_size
               /\ onDisk' = onDisk
               /\ removed' = removed
               /\ visited' = visited
               /\ dirs_to_search' = Tail(dirs_to_search)
               /\ pc' = "while"
          ]_vars

\* the walk has ended; the directory s could not be listed, b.lnk before it
\* was counted, and d.url in the directory queued after s was classified
C15_Witness ==
    /\ pc = "done"
    /\ dirStatus[SubDir] = "denied"
    /\ Occurrences(output, Line("PermissionError", SubDir, <<>>)) = 1
    /\ Len(visited) = 3
    /\ visited[3].path = Join(OtherDir, FileName("d", ContentD))
    /\ total_count >= 1
    /\ DeepDir \notin {dequeued[i] : i \in 1..Len(dequeued)}

(***************************************************************************)
(* C16 - Only the PermissionError of a directory listing is recovered: any *)
(* other error of os.listdir, and any error of os.remove, leaves           *)
(* search_loop, and nothing is classified after it.  It fails for the      *)
(* PermissionError of os.remove, which line 300 catches as well.           *)
(***************************************************************************)
C16_OtherErrorsPropagate ==
    /\ [][( /\ pc = "while"
            /\ Len(dirs_to_search) > 0
            /\ listdir_exc(Head(dirs_to_search)) \notin {"none", "PermissionError"} )
            => pc' = "raised"]_vars
    /\ [][( /\ pc = "for"
            /\ Len(listing) > 0
            /\ Join(dir_to_search, Head(listing)) \in onDisk
            /\ delete
            /\ classify(Join(dir_to_search, Head(listing))).broken
            /\ remove_exc(Join(dir_to_search, Head(listing))) # "none" )
            => pc' = "raised"]_vars
    /\ [][pc = "raised" => (pc' = "raised" /\ visited' = visited)]_vars

(***************************************************************************)
(* C17 - The walk terminates: search_loop eventually returns; it leaves    *)
(* the while loop only with an empty queue or a set stop_event, and leaves *)
(* it once the queue is empty; on return the last two lines printed are    *)
(* the elapsed time and the summary with total_count and total_size.       *)
(***************************************************************************)
C17_WalkTerminates ==
    /\ <>(pc = "done")
    /\ [](/\ pc \in {"break", "done"} => (dirs_to_search = <<>> \/ stop_event)
          /\ pc = "done" =>
                 /\ Len(output) >= 2
                 /\ SubSeq(output, Len(output) - 1, Len(output))
                        = SummaryLines(total_count, total_size))
    /\ [][( /\ pc = "while"
            /\ dirs_to_search = <<>>
            /\ pc' # pc ) => pc' = "done"]_vars
    /\ [][( /\ pc = "while"
            /\ dirs_to_search # <<>>
            /\ pc' # pc ) => pc' # "done"]_vars

\* search_loop has returned after listing all four directories, with an
\* empty queue and no stop requested
C17_Witness ==
    /\ pc = "done"
    /\ ~stop_event
    /\ dirs_to_search = <<>>
    /\ Len(dequeued) = 4
    /\ output[Len(output)].kind = "summary"
    /\ output[Len(output)].count = total_count

(***************************************************************************)
(* C18 - As claimed: once a run of search_loop has ended, in whatever way  *)
(* (the queue ran empty, a directory was denied, the stop_event was set,   *)
(* or an error left the function), the summary line has been printed       *)
(* exactly once.                                                           *)
(***************************************************************************)
C18_SummaryOnceWhateverHappens ==
    pc \in {"done", "raised"} => LinesOfKind("summary") = 1

(***************************************************************************)
(* C18, amended - The summary line is printed exactly once in every run    *)
(* from which search_loop returns (the queue ran empty, with or without    *)
(* denied directories, or the stop_event was set), as the last line, with  *)
(* the totals of the run; it is never printed before the loop has ended,   *)
(* and not at all in a run that an error leaves.                           *)
(***************************************************************************)
C18_SummaryOnceOnReturn ==
    /\ LinesOfKind("summary") = (IF pc = "done" THEN 1 ELSE 0)
    /\ LinesOfKind("took") = LinesOfKind("summary")
    /\ pc = "done" =>
           /\ output[Len(output)].kind = "summary"
           /\ output[Len(output)].count = total_count
           /\ output[Len(output)].size = total_size

\* search_loop has returned early: the stop_event was set while directories
\* were still queued, one directory had been denied, and the summary is out
C18_Witness ==
    /\ pc = "done"
    /\ stop_event
    /\ dirs_to_search # <<>>
    /\ LinesOfKind("PermissionError") = 1
    /\ LinesOfKind("summary") = 1

(***************************************************************************)
(* C19 - As claimed: with delete set or not, every shortcut counted as     *)
(* broken has exactly one printed line that names its path, every          *)
(* empty-target or unrecognized shortcut has exactly one printed line, and *)
(* every directory that could not be listed has exactly one printed line.  *)
(***************************************************************************)
C19_OneLinePerFinding ==
    /\ \A i \in 1..Len(visited) :
           /\ visited[i].broken => LinesAbout(visited[i].path, ReportKinds) = 1
           /\ (Indeterminate(visited[i].path) \/ Unrecognized(visited[i].path)) =>
                  LinesAbout(visited[i].path, ReportKinds) = 1
    /\ \A i \in 1..Len(dequeued) :
           dirStatus[dequeued[i]] = "denied" =>
               LinesAbout(dequeued[i], ReportKinds) = 1

(***************************************************************************)
(* C19, amended - Without delete, every shortcut counted as broken has     *)
(* exactly one "found broken" line that names its path; with delete it has *)
(* none, being removed instead.  With delete set or not, a shortcut to a   *)
(* missing drive has one further line that names its path and the drive,   *)
(* whether it is counted or ignored.  Every empty-target or unrecognized   *)
(* shortcut has exactly one printed line, and every directory that could   *)
(* not be listed has exactly one printed line.                             *)
(***************************************************************************)
C19_LinesPerFindingByMode ==
    /\ \A i \in 1..Len(visited) :
           /\ LinesAbout(visited[i].path, {"found_broken"})
                  = (IF visited[i].broken /\ ~delete THEN 1 ELSE 0)
           /\ LinesAbout(visited[i].path, {"missing_drive"})
                  = (IF visited[i].via = "drive" THEN 1 ELSE 0)
           /\ (Indeterminate(visited[i].path) \/ Unrecognized(visited[i].path)) =>
                  /\ LinesAbout(visited[i].path, ReportKinds) = 1
                  /\ LinesAbout(visited[i].path, {visited[i].exc}) = 1
    /\ \A i \in 1..Len(dequeued) :
           dirStatus[dequeued[i]] = "denied" =>
               LinesAbout(dequeued[i], ReportKinds) = 1

\* a report-only walk has ended: the first file, a .lnk to the missing drive
\* A:, was counted and has two lines, the broken b.lnk has one
C19_Witness ==
    /\ pc = "done"
    /\ ~delete
    /\ Len(visited) >= 2
    /\ visited[1].via = "drive"
    /\ visited[1].broken
    /\ LinesAbout(visited[1].path, ReportKinds) = 2
    /\ visited[2].broken
    /\ LinesAbout(visited[2].path, ReportKinds) = 1

C22_DriveMissingOnlyForFileLinks ==
    /\ \A p \in DOMAIN files :
           /\ IsNetLink(p) => is_target_drive_missing(p) = Return(FALSE)
           /\ (IsFileLink(p) /\ files[p].target # <<>>) =>
                  is_target_drive_missing(p)
                      = Return(Prefix(files[p].target, 2) \notin MountedDrives)
    /\ \A i \in 1..Len(visited) :
           visited[i].via = "drive" <=>
               /\ IsFileLink(visited[i].path)
               /\ files[visited[i].path].target # <<>>
               /\ Prefix(files[visited[i].path].target, 2) \notin MountedDrives

\* the walk has classified a .url shortcut whose target names the missing
\* drive A: (as a path or as a file: URI) without taking the missing-drive
\* branch
C22_Witness ==
    \E i \in 1..Len(visited) :
        /\ IsNetLink(visited[i].path)
        /\ files[visited[i].path].target \in {T_driveA, U_fileA}
        /\ visited[i].via = "generic"

(***************************************************************************)
(* C23: parse_drive_str returns the one alphabetic character of its input, *)
(* uppercased and followed by ":", when the input holds exactly one        *)
(* alphabetic character, and None otherwise.  parse_removable_drives       *)
(* returns, in input order, the parse_drive_str of exactly the inputs that *)
(* hold exactly one alphabetic character; empty and multi-letter inputs    *)
(* are dropped with one printed line each, and the result holds no None.   *)
(***************************************************************************)
C23_DriveInputParsing ==
    /\ \A drive \in ArgStrings :
           IF Cardinality({i \in 1..Len(drive) : isalpha(drive[i])}) = 1
           THEN \E i \in 1..Len(drive) :
                    /\ isalpha(drive[i])
                    /\ parse_drive_str(drive) = upper(drive[i]) \o <<":">>
           ELSE parse_drive_str(drive) = None
    /\ pc # "main" =>
           /\ removable_drives
                  = [i \in 1..Len(SelectSeq(args, LAMBDA d : parse_drive_str(d) # None)) |->
                        parse_drive_str(SelectSeq(args,
                                                  LAMBDA d : parse_drive_str(d) # None)[i])]
           /\ \A i \in 1..Len(removable_drives) :
                  /\ removable_drives[i] # None
                  /\ removable_drives[i][Len(removable_drives[i])] = ":"
                  /\ \A k \in 1..(Len(removable_drives[i]) - 1) :
                         \E j \in 1..26 : UpperLetters[j] = removable_drives[i][k]
           /\ Cardinality({k \in 1..Len(output) :
                              output[k].kind \in {"empty_input", "multiple_letters"}})
                  = Len(args) - Len(removable_drives)

\* main has parsed a command line that holds an input kept and an input
\* dropped, and search_loop runs with the parsed list
C23_Witness ==
    /\ pc = "for"
    /\ Len(args) = 2
    /\ parse_drive_str(args[1]) = None
    /\ args[2] = <<"b", ":">>
    /\ removable_drives = <<DriveB>>

\* the kind the dispatch of lines 214-224 and 167-189 gives a reference, by
\* the form the reference is given in
KindOf(has_ext(_, _), p) ==
    IF has_ext(p, FILE_SHORTCUT_EXT) THEN "FileLink"
    ELSE IF has_ext(p, NET_SHORTCUT_EXT) THEN "NetLink"
    ELSE "Unrecognized"

(***************************************************************************)
(* C24: the kind of a shortcut depends only on its extension compared      *)
(* without regard to letter case: two references whose names end in the    *)
(* same extension get the same kind, given as string (or parsed link       *)
(* object) or as Path, whatever the shortcut holds; .lnk gives FileLink,   *)
(* .url gives NetLink, anything else Unrecognized.                         *)
(***************************************************************************)
C24_KindByExtensionOnly ==
    \A p \in DOMAIN files, q \in DOMAIN files :
        Lower(files[p].ext) = Lower(files[q].ext) =>
            /\ KindOf(shortcut_has_ext, p) = KindOf(shortcut_has_ext, q)
            /\ KindOf(shortcut_has_ext_path, p) = KindOf(shortcut_has_ext_path, q)
            /\ KindOf(shortcut_has_ext, p) = KindOf(shortcut_has_ext_path, q)
            /\ KindOf(shortcut_has_ext, p)
                   = IF Lower(files[p].ext) = FILE_SHORTCUT_EXT THEN "FileLink"
                     ELSE IF Lower(files[p].ext) = NET_SHORTCUT_EXT THEN "NetLink"
                     ELSE "Unrecognized"

(***************************************************************************)
(* C25: once stop_event is set, search_loop takes at most one more         *)
(* directory off the queue and goes through at most one more directory     *)
(* entry; it leaves the loops by break only when the event is set, and     *)
(* having left them it prints the summary with the totals reached.  A walk *)
(* whose event is never set ends with every queued directory listed.       *)
(***************************************************************************)
C25_CooperativeEarlyExit ==
    /\ stop_event =>
           /\ Progress.dequeued <= stopped_at.dequeued + 1
           /\ Progress.entries <= stopped_at.entries + 1
    /\ pc = "break" => stop_event
    /\ pc = "done" =>
           /\ output[Len(output)].kind = "summary"
           /\ output[Len(output)].count = total_count
           /\ output[Len(output)].size = total_size
    /\ (pc = "done" /\ ~stop_event) =>
           /\ dirs_to_search = <<>>
           /\ dequeued = enqueued

\* the event was set between two directories: the walk took one more
\* directory and one more entry, left directories on the queue and printed
\* the summary of a count reached before the event
C25_Witness ==
    /\ pc = "done"
    /\ stop_event
    /\ Progress.dequeued = stopped_at.dequeued + 1
    /\ Progress.entries = stopped_at.entries + 1
    /\ dirs_to_search # <<>>
    /\ total_count > 0
    /\ output[Len(output)].count = total_count

\* the drive list search_loop printed when the current walk started
DrivesAtStart ==
    output[CHOOSE k \in 1..Len(output) : output[k].kind = "ignoring_drives"].drives

(***************************************************************************)
(* C26: the drive list a running search_loop consults is the one the walk  *)
(* started with: while the thread walks the list does not change, and      *)
(* every shortcut to a missing drive is counted as broken or ignored       *)
(* according to the list printed at the start of its walk, whatever drives *)
(* are added or removed in the GUI meanwhile.                              *)
(***************************************************************************)
C26_DriveSetFixedDuringWalk ==
    /\ pc \in {"while", "for", "break"} => removable_drives = DrivesAtStart
    /\ \A i \in 1..Len(visited) :
           MissingDriveLink(visited[i].path) =>
               visited[i].broken
                   = ~InList(RecordedDrive(files[visited[i].path].target),
                             DrivesAtStart)

(***************************************************************************)
(* C27: run_search_loop takes its re-enable step, the configuration of     *)
(* run_button at line 519, only in states in which destroy has not         *)
(* happened, under every interleaving of destroy with the end of the       *)
(* search thread.                                                          *)
(***************************************************************************)
C27_NoConfigAfterDestroy ==
    [][(pc = "enable" /\ pc' = "idle") => gui = "open"]_vars

(***************************************************************************)
(* C28: when the list main has parsed holds no drive twice, then after any *)
(* sequence of add_removable_drive and remove_removable_drive events the   *)
(* list removable_drives holds no drive twice, holds only entries made of  *)
(* one uppercase letter followed by ":", and holds exactly one entry for   *)
(* every RemovableDrive frame displayed.                                   *)
(***************************************************************************)
C28_DriveListInvariant ==
    (gui # "none"
     /\ \A i \in 1..Len(parse_removable_drives(args)) :
            Occurrences(parse_removable_drives(args),
                        parse_removable_drives(args)[i]) = 1) =>
        /\ \A i \in 1..Len(removable_drives) :
               /\ Occurrences(removable_drives, removable_drives[i]) = 1
               /\ Len(removable_drives[i]) = 2
               /\ \E j \in 1..26 : UpperLetters[j] = removable_drives[i][1]
               /\ removable_drives[i][2] = ":"
        /\ Len(frames) = Len(removable_drives)
        /\ \A i \in 1..Len(frames) :
               Occurrences(frames, frames[i])
                   = Occurrences(removable_drives, frames[i])

(***************************************************************************)
(* C29: at most one search thread exists at a time.  From the click on Run *)
(* until the thread has re-enabled the button or ended, exactly one thread *)
(* exists and the button of the open window is disabled, so that no click  *)
(* starts a second search_loop while one is walking; the button is enabled *)
(* only while no thread exists.                                            *)
(***************************************************************************)
C29_OneSearchAtATime ==
    /\ threads <= 1
    /\ pc \in {"start", "while", "for", "break", "done", "enable"} =>
           /\ threads = 1
           /\ run_button = "disabled"
    /\ run_button = "normal" => (threads = 0 /\ pc = "idle")

\* a second search thread walks, started by a click after the first thread
\* had removed broken shortcuts, returned and re-enabled the button
C29_Witness ==
    /\ pc = "for"
    /\ threads = 1
    /\ run_button = "disabled"
    /\ gui = "open"
    /\ removed = <<>>
    /\ onDisk # DOMAIN files

(***************************************************************************)
(* C30: in delete mode, when the walk has ended, total_count is the number *)
(* of files removed from disk, also when os.remove was denied on a broken  *)
(* shortcut.                                                               *)
(***************************************************************************)
C30_CountEqualsRemoved ==
    (pc = "done" /\ delete) => total_count = Len(removed)

(***************************************************************************)
(* C31: in a directory whose listing succeeded, an access-denied error     *)
(* raised while one entry is handled hides none of its siblings: when a    *)
(* walk that was not stopped has ended, every file the directory lists has *)
(* been classified and every subdirectory it lists has been enqueued.      *)
(***************************************************************************)
C31_SiblingsSurviveFailure ==
    (pc = "done" /\ ~stop_event) =>
        \A k \in 1..Len(dequeued) :
            dirStatus[dequeued[k]] = "ok" =>
                \A n \in 1..Len(dirEntries[dequeued[k]]) :
                    \E path \in {Join(dequeued[k], dirEntries[dequeued[k]][n])} :
                        IF path \in DOMAIN files
                        THEN Processed(path)
                        ELSE InList(path, enqueued)

====
